---------------------------- MODULE Spec2Model ----------------------------
(***************************************************************************)
(* A model of statistics_and_trends.py: the loader (pd.read_csv), the      *)
(* cleaner (preprocessing), the three plot functions, the summarizer       *)
(* (statistical_analysis) and the report (writing), run in the order of    *)
(* main().                                                                 *)
(*                                                                         *)
(* Texts are sequences of one-character strings.  A cell of the table is a *)
(* record [kind, whole, frac, txt]: kind is the cell's type ("nan", "int", *)
(* "float", "str", "nat", "datetime"); a number is whole + frac/10.        *)
(* A moment is a record [nan, sgn, num, den, root] standing for the exact  *)
(* value sgn * (num/den), or sgn * sqrt(num/den) when root is TRUE.        *)
(***************************************************************************)
EXTENDS Integers, Sequences, FiniteSets

VARIABLES pc, df, raw, prev, cleaned, calls, err, charts, heatmap, moments,
          report, log

vars == <<pc, df, raw, prev, cleaned, calls, err, charts, heatmap, moments,
          report, log>>

(***************************************************************************)
(* Bounds of the model.                                                    *)
(***************************************************************************)
\* most data rows of an input file
MaxRows == 2
\* most calls of preprocessing on the same table (SpecClean)
MaxCalls == 2
\* longest numeric column handed to statistical_analysis (SpecMoments)
MaxN == 4
\* largest value of that column
MaxVal == 2

(***************************************************************************)
(* Texts.                                                                  *)
(***************************************************************************)
DigitChars == <<"0", "1", "2", "3", "4", "5", "6", "7", "8", "9">>

IsDigit(c) == \E i \in 1..10 : DigitChars[i] = c

DigitVal(c) == (CHOOSE i \in 1..10 : DigitChars[i] = c) - 1

\* int("90") / float("90"): the value of a run of decimal digits
RECURSIVE int_of_digits(_)
int_of_digits(s) ==
    IF s = <<>> THEN 0
    ELSE 10 * int_of_digits(SubSeq(s, 1, Len(s) - 1)) + DigitVal(s[Len(s)])

\* str(n) for a natural number n
RECURSIVE str_of_nat(_)
str_of_nat(n) ==
    IF n < 10 THEN <<DigitChars[n + 1]>>
    ELSE str_of_nat(n \div 10) \o <<DigitChars[(n % 10) + 1]>>

AllDigits(s) == s # <<>> /\ \A i \in 1..Len(s) : IsDigit(s[i])

\* a decimal literal with one digit after the point, such as "2020.5"
IsFloatToken(s) ==
    /\ Len(s) >= 3
    /\ s[Len(s) - 1] = "."
    /\ IsDigit(s[Len(s)])
    /\ AllDigits(SubSeq(s, 1, Len(s) - 2))

(***************************************************************************)
(* Cells.                                                                  *)
(***************************************************************************)
NaN == [kind |-> "nan", whole |-> 0, frac |-> 0, txt |-> <<>>]
NaT == [kind |-> "nat", whole |-> 0, frac |-> 0, txt |-> <<>>]
IntCell(n) == [kind |-> "int", whole |-> n, frac |-> 0, txt |-> <<>>]
FloatCell(w, f) == [kind |-> "float", whole |-> w, frac |-> f, txt |-> <<>>]
StrCell(t) == [kind |-> "str", whole |-> 0, frac |-> 0, txt |-> t]
DatetimeCell(y) == [kind |-> "datetime", whole |-> y, frac |-> 0, txt |-> <<>>]

\* pandas' isna(): NaN, None and NaT are the missing values
isna(c) == c.kind \in {"nan", "nat"}

(***************************************************************************)
(* The input file and pd.read_csv.  A file is a header (cols) and data     *)
(* rows of field texts; an empty field is a missing value.  A column all   *)
(* of whose fields are integer literals is int64; one of numeric literals  *)
(* and empty fields is float64; any other column holds its texts (object). *)
(***************************************************************************)
Required == {"release_year", "duration", "country"}
AllCols == Required \cup {"date_added"}

T_90min == <<"9", "0", " ", "m", "i", "n">>
T_2Seasons == <<"2", " ", "S", "e", "a", "s", "o", "n", "s">>
T_min == <<"m", "i", "n">>
T_s1e22 == <<"s", "1", "e", "2", "2">>
T_2019 == <<"2", "0", "1", "9">>
T_2020_5 == <<"2", "0", "2", "0", ".", "5">>
T_abc == <<"a", "b", "c">>
T_US == <<"U", "S">>
T_2021_01 == <<"2", "0", "2", "1", "-", "0", "1">>

\* the field texts of the files preprocessing is tried on: one family of
\* files varies the duration texts, the other the release_year texts
DurationTokens(c) ==
    CASE c = "release_year" -> {<<>>, T_2019}
      [] c = "duration" -> {<<>>, T_90min, T_min, T_s1e22}
      [] c = "country" -> {<<>>, T_US}
      [] OTHER -> {<<>>, T_2021_01}

YearTokens(c) ==
    CASE c = "release_year" -> {<<>>, T_2019, T_2020_5, T_abc}
      [] c = "duration" -> {<<>>, T_90min}
      [] c = "country" -> {<<>>, T_US}
      [] OTHER -> {T_2021_01}

\* the field texts of the files main() is run on
MainTokens(c) ==
    CASE c = "release_year" -> {<<>>, T_2019, T_abc}
      [] c = "duration" -> {<<>>, T_90min, T_min}
      [] c = "country" -> {<<>>, T_US}
      [] OTHER -> {<<>>, T_2021_01}

AllTokens ==
    UNION {DurationTokens(c) \cup YearTokens(c) \cup MainTokens(c) : c \in AllCols}

\* the field texts of column c in the family fam of files
Tokens(fam, c) ==
    CASE fam = "duration" -> DurationTokens(c)
      [] fam = "year" -> YearTokens(c)
      [] OTHER -> MainTokens(c)

\* the files of the family fam with the columns cols
Files(cols, fam) ==
    LET FileRows == {r \in [cols -> AllTokens] :
                       \A c \in cols : r[c] \in Tokens(fam, c)}
    IN  UNION {[cols : {cols}, rows : [1..n -> FileRows]] : n \in 0..MaxRows}

Column(rows, c) == [i \in 1..Len(rows) |-> rows[i][c]]

infer_dtype(fields) ==
    IF Len(fields) = 0 THEN "object"
    ELSE IF \A i \in 1..Len(fields) : AllDigits(fields[i]) THEN "int64"
    ELSE IF \A i \in 1..Len(fields) :
               fields[i] = <<>> \/ AllDigits(fields[i]) \/ IsFloatToken(fields[i])
         THEN "float64"
    ELSE "object"

parse_field(t, dtype) ==
    IF t = <<>> THEN NaN
    ELSE IF dtype = "int64" THEN IntCell(int_of_digits(t))
    ELSE IF dtype = "float64" THEN
        IF AllDigits(t) THEN FloatCell(int_of_digits(t), 0)
        ELSE FloatCell(int_of_digits(SubSeq(t, 1, Len(t) - 2)), DigitVal(t[Len(t)]))
    ELSE StrCell(t)

read_csv(file) ==
    LET dt == [c \in file.cols |-> infer_dtype(Column(file.rows, c))]
    IN  [cols |-> file.cols,
         dtypes |-> dt,
         rows |-> [i \in 1..Len(file.rows) |->
                     [idx |-> i - 1,
                      cells |-> [c \in file.cols |->
                                   parse_field(file.rows[i][c], dt[c])]]]]

EmptyDf == [cols |-> {}, dtypes |-> <<>>, rows |-> <<>>]

(***************************************************************************)
(* preprocessing (the cleaner).  Its prints of head(), describe() and      *)
(* corr() read the table and leave it alone; they are not modelled.        *)
(***************************************************************************)
Complete(r, subset) == \A c \in subset : ~isna(r.cells[c])

\* how='all' instead of the default how='any'
dropna_all(d, subset) ==
    IF ~(subset \subseteq d.cols) THEN [err |-> "KeyError", df |-> d]
    ELSE [err |-> "none",
          df |-> [d EXCEPT !.rows =
                    SelectSeq(d.rows,
                              LAMBDA r : \E c \in subset : ~isna(r.cells[c]))]]

\* the rows are dropped on the columns that exist before the absent ones are
\* reported
dropna_late_check(d, subset) ==
    LET kept == [d EXCEPT !.rows =
                   SelectSeq(d.rows,
                             LAMBDA r : Complete(r, subset \cap d.cols))]
    IN  IF ~(subset \subseteq d.cols) THEN [err |-> "KeyError", df |-> kept]
        ELSE [err |-> "none", df |-> kept]

\* df.dropna(subset=subset, inplace=True): a KeyError for an absent column,
\* raised before any row is dropped; else every row with a missing value
\* in a column of subset goes, the others keep their order and index
dropna(d, subset) ==
    IF ~(subset \subseteq d.cols) THEN [err |-> "KeyError", df |-> d]
    ELSE [err |-> "none",
          df |-> [d EXCEPT !.rows =
                    SelectSeq(d.rows, LAMBDA r : Complete(r, subset))]]

\* .astype(str) of one cell
astype_str(c) ==
    CASE c.kind = "str" -> c
      [] c.kind = "int" -> StrCell(str_of_nat(c.whole))
      [] c.kind = "float" ->
           StrCell(str_of_nat(c.whole) \o <<".", DigitChars[c.frac + 1]>>)
      [] c.kind = "datetime" ->
           StrCell(str_of_nat(c.whole) \o <<"-", "0", "1", "-", "0", "1">>)
      [] c.kind = "nat" -> StrCell(<<"N", "a", "T">>)
      [] OTHER -> StrCell(<<"n", "a", "n">>)

\* the longest prefix of s made of digits
RECURSIVE take_digits(_)
take_digits(s) ==
    IF s # <<>> /\ IsDigit(Head(s)) THEN <<Head(s)>> \o take_digits(Tail(s))
    ELSE <<>>

\* the pattern (\d) instead of (\d+): the first digit alone
RECURSIVE re_search_one_digit(_)
re_search_one_digit(s) ==
    IF s = <<>> THEN <<>>
    ELSE IF IsDigit(Head(s)) THEN <<Head(s)>>
    ELSE re_search_one_digit(Tail(s))

\* re.search(r'(\d+)', s): the leftmost, longest run of digits; <<>> for no
\* match
RECURSIVE re_search_digits(_)
re_search_digits(s) ==
    IF s = <<>> THEN <<>>
    ELSE IF IsDigit(Head(s)) THEN take_digits(s)
    ELSE re_search_digits(Tail(s))

\* .str.extract(r'(\d+)') of one cell: the group, or NaN for no match
str_extract(c) ==
    IF c.kind # "str" \/ re_search_digits(c.txt) = <<>> THEN NaN
    ELSE StrCell(re_search_digits(c.txt))

\* .astype(float) of one cell of the extracted column
astype_float(c) ==
    IF c.kind = "str" THEN FloatCell(int_of_digits(c.txt), 0) ELSE NaN

\* df['duration'] = df['duration'].astype(str).str.extract(r'(\d+)').astype(float)
extract_duration(d) ==
    [d EXCEPT
       !.dtypes = [d.dtypes EXCEPT !["duration"] = "float64"],
       !.rows = [i \in 1..Len(d.rows) |->
                   [d.rows[i] EXCEPT !.cells["duration"] =
                      astype_float(str_extract(astype_str(@)))]]]

\* whether .astype(int) converts the cell: a finite number, or a text int()
\* accepts
can_int(c) ==
    \/ c.kind \in {"int", "float"}
    \/ c.kind = "str" /\ AllDigits(c.txt)

\* rounding to the nearest integer instead of truncating
astype_int_round(c) ==
    CASE c.kind = "float" -> IntCell(IF c.frac >= 5 THEN c.whole + 1 ELSE c.whole)
      [] c.kind = "str" -> IntCell(int_of_digits(c.txt))
      [] OTHER -> c

\* .astype(int) of one convertible cell: a float loses its fraction
astype_int(c) ==
    CASE c.kind = "float" -> IntCell(c.whole)
      [] c.kind = "str" -> IntCell(int_of_digits(c.txt))
      [] OTHER -> c

\* df['release_year'] = df['release_year'].astype(int)
year_to_int(d) ==
    [d EXCEPT
       !.dtypes = [d.dtypes EXCEPT !["release_year"] = "int64"],
       !.rows = [i \in 1..Len(d.rows) |->
                   [d.rows[i] EXCEPT !.cells["release_year"] = astype_int(@)]]]

\* preprocessing(df): the error it raises ("none" when it returns) and the
\* table as it then is; the table is mutated in place, step by step
preprocessing(d) ==
    LET s1 == dropna(d, Required)
    IN  IF s1.err # "none" THEN s1
        ELSE LET d2 == extract_duration(s1.df)
             IN  IF \E i \in 1..Len(d2.rows) :
                       ~can_int(d2.rows[i].cells["release_year"])
                 THEN [err |-> "ValueError", df |-> d2]
                 ELSE [err |-> "none", df |-> year_to_int(d2)]

(***************************************************************************)
(* SpecClean: preprocessing as a function of a loaded table, applied again *)
(* to the table it returned.                                               *)
(***************************************************************************)
InitClean ==
    /\ pc = "preprocessing"
    /\ \E f \in Files(AllCols, "duration") \cup Files(AllCols, "year") :
         df = read_csv(f)
    /\ raw = df
    /\ prev = df
    /\ cleaned = EmptyDf
    /\ calls = 0
    /\ err = "none"
    /\ charts = <<>>
    /\ heatmap = {}
    /\ moments = <<>>
    /\ report = <<>>
    /\ log = <<>>

CallPreprocessing ==
    /\ pc = "preprocessing"
    /\ calls < MaxCalls
    /\ LET r == preprocessing(df)
       IN  /\ df' = r.df
           /\ err' = r.err
           /\ pc' = IF r.err = "none" THEN "preprocessing" ELSE "failed"
    /\ prev' = df
    /\ calls' = calls + 1
    /\ UNCHANGED <<raw, cleaned, charts, heatmap, moments, report, log>>

SpecClean == InitClean /\ [][CallPreprocessing]_vars

(***************************************************************************)
(* Properties of preprocessing, under SpecClean.  prev is the table handed *)
(* to the last call, raw the table as loaded.                              *)
(***************************************************************************)
RowOf(d, k) == CHOOSE r \in {d.rows[i] : i \in 1..Len(d.rows)} : r.idx = k

HasRow(d, k) == \E i \in 1..Len(d.rows) : d.rows[i].idx = k

PosOf(d, k) == CHOOSE i \in 1..Len(d.rows) : d.rows[i].idx = k

\* C1: a call of preprocessing removes exactly the rows of its input that
\* miss release_year, duration or country: each such row is gone, each
\* other row is kept, in the input's order and with its other fields as
\* they were (missing or not), and the row count falls by the number of
\* rows with a required value missing.
C1_CompletenessFilter ==
    calls >= 1 =>
      /\ \A i \in 1..Len(prev.rows) :
           HasRow(df, prev.rows[i].idx) <=> Complete(prev.rows[i], Required)
      /\ \A i \in 1..Len(df.rows) :
           /\ HasRow(prev, df.rows[i].idx)
           /\ \A c \in prev.cols \ {"release_year", "duration"} :
                df.rows[i].cells[c] = RowOf(prev, df.rows[i].idx).cells[c]
      /\ \A i, j \in 1..Len(df.rows) :
           i < j => PosOf(prev, df.rows[i].idx) < PosOf(prev, df.rows[j].idx)
      /\ Len(df.rows) = Len(prev.rows)
           - Cardinality({i \in 1..Len(prev.rows) :
                            ~Complete(prev.rows[i], Required)})

\* the second of two rows is kept, with a missing date_added, and the first
\* is dropped
C1_Witness ==
    /\ calls = 1
    /\ Len(prev.rows) = 2
    /\ Len(df.rows) = 1
    /\ df.rows[1].idx = 1
    /\ isna(df.rows[1].cells["date_added"])

\* positions i..j hold the first run of decimal digits of t
FirstRun(t, i, j) ==
    /\ i <= j
    /\ \A k \in i..j : IsDigit(t[k])
    /\ \A k \in 1..(i - 1) : ~IsDigit(t[k])
    /\ j = Len(t) \/ ~IsDigit(t[j + 1])

\* C2: after the first call each surviving row's duration is the float of
\* the first run of decimal digits of its duration text ("90 min" gives
\* 90.0, "2 Seasons" gives 2.0); a row whose text has no digit has a
\* missing duration and is still in the table.
C2_DurationExtraction ==
    (calls = 1) =>
      /\ df.dtypes["duration"] = "float64"
      /\ \A i \in 1..Len(raw.rows) :
           Complete(raw.rows[i], Required) =>
             /\ HasRow(df, raw.rows[i].idx)
             /\ LET t == raw.rows[i].cells["duration"].txt
                    got == RowOf(df, raw.rows[i].idx).cells["duration"]
                IN  /\ (\A k \in 1..Len(t) : ~IsDigit(t[k])) => got = NaN
                    /\ \A a, b \in 1..Len(t) :
                         FirstRun(t, a, b) =>
                           got = FloatCell(int_of_digits(SubSeq(t, a, b)), 0)
                    /\ t = T_90min => got = FloatCell(90, 0)
      /\ astype_float(str_extract(astype_str(StrCell(T_2Seasons))))
           = FloatCell(2, 0)

\* one surviving row has the duration 90.0, and one, whose text had no digit, a missing duration
C2_Witness ==
    /\ calls = 1
    /\ err = "none"
    /\ \E i, j \in 1..Len(df.rows) :
         /\ df.rows[i].cells["duration"] = NaN
         /\ raw.rows[PosOf(raw, df.rows[i].idx)].cells["duration"].txt = T_min
         /\ df.rows[j].cells["duration"] = FloatCell(90, 0)

\* C3 as stated: a second call of preprocessing on the table the first one
\* returned removes no row and changes no type or value.
C3_Idempotent == (calls = 2 /\ err = "none") => df = prev

\* the year of a cell of the loaded table, as a whole number, if it is one
SameYear(rc, c) ==
    IF rc.kind = "str" THEN AllDigits(rc.txt) /\ c.whole = int_of_digits(rc.txt)
    ELSE rc.frac = 0 /\ c.whole = rc.whole

\* the year of a cell of the loaded table with its fraction cut off
TruncatedYear(rc, c) ==
    IF rc.kind = "str" THEN AllDigits(rc.txt) /\ c.whole = int_of_digits(rc.txt)
    ELSE c.whole = rc.whole

Survivors == \E i \in 1..Len(raw.rows) : Complete(raw.rows[i], Required)

\* C7 as stated: with a surviving row, the first call returns release_year
\* as integers equal to the original years, or fails with a conversion
\* error.
C7_YearEqualOrError ==
    (calls = 1 /\ Survivors) =>
      \/ /\ err = "none"
         /\ df.dtypes["release_year"] = "int64"
         /\ \A i \in 1..Len(df.rows) :
              /\ df.rows[i].cells["release_year"].kind = "int"
              /\ SameYear(RowOf(raw, df.rows[i].idx).cells["release_year"],
                          df.rows[i].cells["release_year"])
      \/ err = "ValueError" /\ pc = "failed"

\* C7 amended: with a surviving row, the first call returns release_year as
\* integers, each the original year with its fraction cut off (so equal to
\* it when it was whole), or fails with a conversion error; it never
\* returns a missing or non-integer release_year.
C7_YearTruncatedOrError ==
    (calls = 1 /\ Survivors) =>
      \/ /\ err = "none"
         /\ df.dtypes["release_year"] = "int64"
         /\ \A i \in 1..Len(df.rows) :
              /\ df.rows[i].cells["release_year"].kind = "int"
              /\ TruncatedYear(RowOf(raw, df.rows[i].idx).cells["release_year"],
                               df.rows[i].cells["release_year"])
      \/ err = "ValueError" /\ pc = "failed"

\* the year 2020.5 of a float64 column came back as the integer 2020
C7_Witness ==
    /\ calls = 1
    /\ err = "none"
    /\ \E i \in 1..Len(df.rows) :
         /\ RowOf(raw, df.rows[i].idx).cells["release_year"] = FloatCell(2020, 5)
         /\ df.rows[i].cells["release_year"] = IntCell(2020)

(***************************************************************************)
(* The plot functions.  A chart is recorded by the name of the file        *)
(* plt.savefig writes; the heat map by the columns it shows.               *)
(***************************************************************************)
IsDateText(t) ==
    /\ Len(t) = 7
    /\ AllDigits(SubSeq(t, 1, 4))
    /\ t[5] = "-"
    /\ AllDigits(SubSeq(t, 6, 7))

\* pd.to_datetime(..., errors='coerce') of one cell: a text that is no date
\* and a missing value give NaT; a number counts nanoseconds from 1970
to_datetime(c) ==
    CASE c.kind = "str" ->
           IF IsDateText(c.txt) THEN DatetimeCell(int_of_digits(SubSeq(c.txt, 1, 4)))
           ELSE NaT
      [] c.kind \in {"int", "float"} -> DatetimeCell(1970)
      [] c.kind = "datetime" -> c
      [] OTHER -> NaT

\* .dt.year of one cell, in a column that is float64 when it holds a NaT
dt_year(c, anyNaT) ==
    IF c.kind = "nat" THEN NaN
    ELSE IF anyNaT THEN FloatCell(c.whole, 0) ELSE IntCell(c.whole)

\* what plot_relational_plot leaves of the table: with a date_added column,
\* that column as datetimes and a new column year_added
plot_relational_plot(d) ==
    IF "date_added" \notin d.cols THEN d
    ELSE LET dates == [i \in 1..Len(d.rows) |->
                         to_datetime(d.rows[i].cells["date_added"])]
             anyNaT == \E i \in 1..Len(dates) : dates[i].kind = "nat"
             newcols == d.cols \cup {"year_added"}
         IN  [cols |-> newcols,
              dtypes |-> [c \in newcols |->
                            IF c = "date_added" THEN "datetime64"
                            ELSE IF c = "year_added"
                                 THEN (IF anyNaT THEN "float64" ELSE "int32")
                            ELSE d.dtypes[c]],
              rows |-> [i \in 1..Len(d.rows) |->
                          [idx |-> d.rows[i].idx,
                           cells |-> [c \in newcols |->
                                        IF c = "date_added" THEN dates[i]
                                        ELSE IF c = "year_added"
                                             THEN dt_year(dates[i], anyNaT)
                                        ELSE d.rows[i].cells[c]]]]]

\* df.select_dtypes(include=['number']): the columns of the heat map
select_dtypes_number(d) ==
    {c \in d.cols : d.dtypes[c] \in {"int64", "int32", "float64"}}

(***************************************************************************)
(* statistical_analysis.  The column's cells are whole numbers (duration   *)
(* is one after the extraction); missing cells are skipped.  The moments   *)
(* are kept exact: with x the n values and S their sum, the deviations     *)
(* n*x[i] - S are integers, and skewness and kurtosis do not change when   *)
(* all deviations are divided by a common factor.                          *)
(***************************************************************************)
RECURSIVE gcd(_, _)
gcd(a, b) == IF b = 0 THEN a ELSE gcd(b, a % b)

Abs(x) == IF x < 0 THEN -x ELSE x

Sign(x) == IF x > 0 THEN 1 ELSE IF x < 0 THEN -1 ELSE 0

NanNum == [nan |-> TRUE, sgn |-> 0, num |-> 0, den |-> 1, root |-> FALSE]

\* n/d for d > 0, in lowest terms
Frac(n, d) ==
    LET g == gcd(Abs(n), d)
    IN  [nan |-> FALSE, sgn |-> Sign(n), num |-> Abs(n) \div g,
         den |-> d \div g, root |-> FALSE]

Zero == Frac(0, 1)

\* sg * sqrt(n/d) for n >= 0 and d > 0
Root(sg, n, d) ==
    IF n = 0 \/ sg = 0 THEN Zero
    ELSE [Frac(n, d) EXCEPT !.sgn = sg, !.root = TRUE]

RECURSIVE SumSeq(_)
SumSeq(x) == IF x = <<>> THEN 0 ELSE Head(x) + SumSeq(Tail(x))

RECURSIVE GcdSeq(_)
GcdSeq(x) == IF x = <<>> THEN 0 ELSE gcd(Abs(Head(x)), GcdSeq(Tail(x)))

\* the non-missing values of a column
values(d, col) ==
    LET present == SelectSeq(d.rows, LAMBDA r : ~isna(r.cells[col]))
    IN  [i \in 1..Len(present) |-> present[i].cells[col].whole]

\* n*x[i] - S
Deviations(x) == [i \in 1..Len(x) |-> Len(x) * x[i] - SumSeq(x)]

\* the deviations divided by their greatest common divisor
Reduced(x) ==
    LET dv == Deviations(x)
        g == GcdSeq(dv)
    IN  [i \in 1..Len(x) |-> IF g = 0 THEN 0 ELSE dv[i] \div g]

PowerSum(e, k) ==
    SumSeq([i \in 1..Len(e) |->
              IF k = 2 THEN e[i] * e[i]
              ELSE IF k = 3 THEN e[i] * e[i] * e[i]
              ELSE e[i] * e[i] * e[i] * e[i]])

\* Series.mean()
mean(x) == IF Len(x) = 0 THEN NanNum ELSE Frac(SumSeq(x), Len(x))

\* Series.std(): the sample standard deviation (divisor n - 1)
std(x) ==
    LET n == Len(x)
    IN  IF n < 2 THEN NanNum
        ELSE Root(1, PowerSum(Deviations(x), 2), n * n * (n - 1))

\* Series.skew(): the bias-corrected sample skewness; NaN below 3 values, 0
\* for a column of equal values
skew(x) ==
    LET n == Len(x)
        e == Reduced(x)
        m2 == PowerSum(e, 2)
        m3 == PowerSum(e, 3)
    IN  IF n < 3 THEN NanNum
        ELSE IF m2 = 0 THEN Zero
        ELSE Root(Sign(m3), n * n * (n - 1) * m3 * m3,
                  (n - 2) * (n - 2) * m2 * m2 * m2)

\* Series.kurtosis(): the bias-corrected sample excess kurtosis (Fisher's
\* definition, 0 for a normal distribution); NaN below 4 values, 0 for a
\* column of equal values
kurtosis(x) ==
    LET n == Len(x)
        e == Reduced(x)
        m2 == PowerSum(e, 2)
        m4 == PowerSum(e, 4)
    IN  IF n < 4 THEN NanNum
        ELSE IF m2 = 0 THEN Zero
        ELSE Frac(n * (n + 1) * (n - 1) * m4 - 3 * (n - 1) * (n - 1) * m2 * m2,
                  (n - 2) * (n - 3) * m2 * m2)

\* x - 3; NaN stays NaN
minus3(x) ==
    IF x.nan THEN NanNum ELSE Frac(x.sgn * x.num - 3 * x.den, x.den)

\* statistical_analysis(df, col)
statistical_analysis(d, col) ==
    LET x == values(d, col)
    IN  <<mean(x), std(x), skew(x), minus3(kurtosis(x))>>

(***************************************************************************)
(* writing.  The report is the pair of labels of its last print; the two   *)
(* decimals of its first print are not modelled.                           *)
(***************************************************************************)
\* x > 0 and x < 0 in Python: both False for NaN
gt0(x) == ~x.nan /\ x.sgn > 0
lt0(x) == ~x.nan /\ x.sgn < 0

\* >= and <= in place of > and <
writing_inclusive(m, col) ==
    IF m = <<>> THEN <<>>
    ELSE <<IF ~m[3].nan /\ m[3].sgn >= 0 THEN "right-skewed"
           ELSE IF lt0(m[3]) THEN "left-skewed"
           ELSE "not skewed",
           IF ~m[4].nan /\ m[4].sgn >= 0 THEN "leptokurtic"
           ELSE IF lt0(m[4]) THEN "platykurtic"
           ELSE "mesokurtic">>

\* writing(moments, col): what it reports, nothing for an empty tuple
writing(m, col) ==
    IF m = <<>> THEN <<>>
    ELSE <<IF gt0(m[3]) THEN "right-skewed"
           ELSE IF lt0(m[3]) THEN "left-skewed"
           ELSE "not skewed",
           IF gt0(m[4]) THEN "leptokurtic"
           ELSE IF lt0(m[4]) THEN "platykurtic"
           ELSE "mesokurtic">>

(***************************************************************************)
(* main(): one action per statement.  log lists the calls made so far.     *)
(***************************************************************************)
\* the summarizer before the renderer
MainCalls_summarizer_first ==
    <<"read_csv", "preprocessing", "statistical_analysis", "writing",
      "plot_relational_plot", "plot_statistical_plot", "plot_categorical_plot">>

\* the calls of main() in the order of its statements
MainCalls ==
    <<"read_csv", "preprocessing", "plot_relational_plot",
      "plot_statistical_plot", "plot_categorical_plot", "statistical_analysis",
      "writing">>

\* where main() is after the call f has returned
After(f) ==
    LET i == CHOOSE k \in 1..Len(MainCalls) : MainCalls[k] = f
    IN  IF i = Len(MainCalls) THEN "done" ELSE MainCalls[i + 1]

\* the headers of the files main() is run on: every column, no date_added,
\* or one required column absent
ColumnSets == {AllCols, Required} \cup {AllCols \ {c} : c \in Required}

Init ==
    /\ pc = "read_csv"
    /\ df = EmptyDf
    /\ raw = EmptyDf
    /\ prev = EmptyDf
    /\ cleaned = EmptyDf
    /\ calls = 0
    /\ err = "none"
    /\ charts = <<>>
    /\ heatmap = {}
    /\ moments = <<>>
    /\ report = <<>>
    /\ log = <<>>

\* df = pd.read_csv('netflix_titles.csv')
Main_read_csv ==
    /\ pc = "read_csv"
    /\ \E cols \in ColumnSets : \E f \in Files(cols, "main") :
         /\ df' = read_csv(f)
         /\ raw' = read_csv(f)
    /\ pc' = After("read_csv")
    /\ log' = Append(log, "read_csv")
    /\ UNCHANGED <<prev, cleaned, calls, err, charts, heatmap, moments, report>>

\* the file is absent or unreadable: read_csv raises and main() ends
Main_read_csv_raises ==
    /\ pc = "read_csv"
    /\ pc' = "failed"
    /\ err' = "FileNotFoundError"
    /\ log' = Append(log, "read_csv")
    /\ UNCHANGED <<df, raw, prev, cleaned, calls, charts, heatmap, moments,
                   report>>

\* df = preprocessing(df); an error it raises ends main()
Main_preprocessing ==
    /\ pc = "preprocessing"
    /\ LET r == preprocessing(df)
       IN  /\ df' = r.df
           /\ err' = r.err
           /\ cleaned' = IF r.err = "none" THEN r.df ELSE cleaned
           /\ pc' = IF r.err = "none" THEN After("preprocessing") ELSE "failed"
    /\ prev' = df
    /\ calls' = calls + 1
    /\ log' = Append(log, "preprocessing")
    /\ UNCHANGED <<raw, charts, heatmap, moments, report>>

\* plot_relational_plot(df)
Main_plot_relational_plot ==
    /\ pc = "plot_relational_plot"
    /\ df' = plot_relational_plot(df)
    /\ charts' = IF "date_added" \in df.cols
                 THEN Append(charts, "relational_plot.png") ELSE charts
    /\ pc' = After("plot_relational_plot")
    /\ log' = Append(log, "plot_relational_plot")
    /\ UNCHANGED <<raw, prev, cleaned, calls, err, heatmap, moments, report>>

\* plot_statistical_plot(df)
Main_plot_statistical_plot ==
    /\ pc = "plot_statistical_plot"
    /\ heatmap' = select_dtypes_number(df)
    /\ charts' = Append(charts, "statistical_plot.png")
    /\ pc' = After("plot_statistical_plot")
    /\ log' = Append(log, "plot_statistical_plot")
    /\ UNCHANGED <<df, raw, prev, cleaned, calls, err, moments, report>>

\* plot_categorical_plot(df)
Main_plot_categorical_plot ==
    /\ pc = "plot_categorical_plot"
    /\ charts' = IF "country" \in df.cols
                 THEN Append(charts, "categorical_plot.png") ELSE charts
    /\ pc' = After("plot_categorical_plot")
    /\ log' = Append(log, "plot_categorical_plot")
    /\ UNCHANGED <<df, raw, prev, cleaned, calls, err, heatmap, moments,
                   report>>

\* moments = statistical_analysis(df, col), with col = 'duration'
Main_statistical_analysis ==
    /\ pc = "statistical_analysis"
    /\ moments' = statistical_analysis(df, "duration")
    /\ pc' = After("statistical_analysis")
    /\ log' = Append(log, "statistical_analysis")
    /\ UNCHANGED <<df, raw, prev, cleaned, calls, err, charts, heatmap, report>>

\* writing(moments, col)
Main_writing ==
    /\ pc = "writing"
    /\ report' = writing(moments, "duration")
    /\ pc' = After("writing")
    /\ log' = Append(log, "writing")
    /\ UNCHANGED <<df, raw, prev, cleaned, calls, err, charts, heatmap, moments>>

Next ==
    \/ Main_read_csv
    \/ Main_read_csv_raises
    \/ Main_preprocessing
    \/ Main_plot_relational_plot
    \/ Main_plot_statistical_plot
    \/ Main_plot_categorical_plot
    \/ Main_statistical_analysis
    \/ Main_writing

Spec == Init /\ [][Next]_vars

(***************************************************************************)
(* SpecMoments: statistical_analysis and writing as functions of a numeric *)
(* column of at most MaxN cells, each missing or a whole number up to      *)
(* MaxVal.                                                                 *)
(***************************************************************************)
NumericColumns ==
    UNION {[1..n -> {NaN} \cup {FloatCell(v, 0) : v \in 0..MaxVal}] : n \in 0..MaxN}

ColumnDf(x) ==
    [cols |-> {"duration"},
     dtypes |-> [c \in {"duration"} |-> "float64"],
     rows |-> [i \in 1..Len(x) |->
                 [idx |-> i - 1, cells |-> [c \in {"duration"} |-> x[i]]]]]

InitMoments ==
    /\ pc = "statistical_analysis"
    /\ df \in {ColumnDf(x) : x \in NumericColumns}
    /\ raw = df
    /\ prev = df
    /\ cleaned = df
    /\ calls = 0
    /\ err = "none"
    /\ charts = <<>>
    /\ heatmap = {}
    /\ moments = <<>>
    /\ report = <<>>
    /\ log = <<>>

NextMoments == Main_statistical_analysis \/ Main_writing

SpecMoments == InitMoments /\ [][NextMoments]_vars

(***************************************************************************)
(* SpecWriting: writing as a function of any tuple of four moments.        *)
(***************************************************************************)
SampleMoments == {NanNum, Zero, Frac(-1, 2), Frac(3, 2), Root(-1, 2, 1), Root(1, 1, 3)}

InitWriting ==
    /\ pc = "writing"
    /\ moments \in SampleMoments \X SampleMoments \X SampleMoments \X SampleMoments
    /\ df = EmptyDf
    /\ raw = EmptyDf
    /\ prev = EmptyDf
    /\ cleaned = EmptyDf
    /\ calls = 0
    /\ err = "none"
    /\ charts = <<>>
    /\ heatmap = {}
    /\ report = <<>>
    /\ log = <<>>

SpecWriting == InitWriting /\ [][Main_writing]_vars

(***************************************************************************)
(* Properties of statistical_analysis and writing.                         *)
(***************************************************************************)
\* C4 as stated: the fourth value statistical_analysis returns is the
\* sample excess kurtosis of the column (the standardized fourth moment
\* minus 3, which Series.kurtosis() already is), not shifted by 3 again.
C4_ExcessKurtosis ==
    moments # <<>> => moments[4] = kurtosis(values(df, "duration"))

AllEqual(x) == \A i \in 1..Len(x) : x[i] = x[1]

\* C5 as stated, for a column of at least four equal values such as
\* [1,1,1,1]: the mean is that value, the standard deviation 0, skewness
\* and excess kurtosis NaN, and the report says "not skewed" and
\* "mesokurtic".
C5_ConstantColumn ==
    LET x == values(df, "duration")
    IN  (pc = "done" /\ Len(x) >= 4 /\ AllEqual(x)) =>
          /\ moments[1] = Frac(x[1], 1)
          /\ moments[2] = Zero
          /\ moments[3].nan
          /\ moments[4].nan
          /\ report = <<"not skewed", "mesokurtic">>

\* C6: for every tuple of four moments writing reports one skew label and
\* one kurtosis label, chosen by sign: skewness > 0 "right-skewed", < 0
\* "left-skewed", else "not skewed"; excess kurtosis > 0 "leptokurtic", < 0
\* "platykurtic", else "mesokurtic"; a NaN raises nothing and gets "not
\* skewed" / "mesokurtic".
C6_Labels ==
    (pc = "done") =>
      /\ Len(report) = 2
      /\ report[1] \in {"right-skewed", "left-skewed", "not skewed"}
      /\ report[2] \in {"leptokurtic", "platykurtic", "mesokurtic"}
      /\ report[1] = "right-skewed" <=> (~moments[3].nan /\ moments[3].sgn = 1)
      /\ report[1] = "left-skewed" <=> (~moments[3].nan /\ moments[3].sgn = -1)
      /\ report[2] = "leptokurtic" <=> (~moments[4].nan /\ moments[4].sgn = 1)
      /\ report[2] = "platykurtic" <=> (~moments[4].nan /\ moments[4].sgn = -1)
      /\ moments[3].nan => report[1] = "not skewed"
      /\ moments[4].nan => report[2] = "mesokurtic"

\* a NaN skewness with a negative kurtosis is reported as "not skewed" and
\* "platykurtic"
C6_Witness ==
    /\ pc = "done"
    /\ moments[3].nan
    /\ moments[4] = Frac(-1, 2)
    /\ report = <<"not skewed", "platykurtic">>

(***************************************************************************)
(* Properties of main(), under Spec.                                       *)
(***************************************************************************)
\* C8: when the loaded table lacks release_year, duration or country,
\* preprocessing fails with a KeyError at the completeness filter, main()
\* ends there with no chart rendered and no report printed, and the table
\* is as it was loaded.
C8_MissingColumn ==
    (calls >= 1 /\ ~(Required \subseteq raw.cols)) =>
      /\ pc = "failed"
      /\ err = "KeyError"
      /\ df = raw
      /\ charts = <<>>
      /\ heatmap = {}
      /\ moments = <<>>
      /\ report = <<>>
      /\ log = <<"read_csv", "preprocessing">>

\* the KeyError for a table without country, one of whose rows misses its
\* duration
C8_Witness ==
    /\ pc = "failed"
    /\ err = "KeyError"
    /\ "country" \notin raw.cols
    /\ \E i \in 1..Len(raw.rows) : isna(raw.rows[i].cells["duration"])

\* C9 as stated: once preprocessing has returned, no later step adds,
\* removes or rewrites a column or a row, and the heat map shows the
\* numeric columns preprocessing returned.
C9_ReadOnlyAfterCleaning ==
    (calls = 1 /\ err = "none") =>
      /\ df = cleaned
      /\ heatmap # {} => heatmap = select_dtypes_number(cleaned)

StageOf(f) ==
    CASE f = "read_csv" -> "loader"
      [] f = "preprocessing" -> "cleaner"
      [] f \in {"statistical_analysis", "writing"} -> "summarizer"
      [] OTHER -> "renderer"

PlotCalls ==
    {"plot_relational_plot", "plot_statistical_plot", "plot_categorical_plot"}

\* the stages of the calls made so far follow the order given
InStageOrder(order) ==
    \A i, j \in 1..Len(log) :
      i < j =>
        \E a, b \in 1..Len(order) :
          a <= b /\ order[a] = StageOf(log[i]) /\ order[b] = StageOf(log[j])

\* each call of main() was made exactly once
EachCallOnce ==
    /\ Len(log) = 7
    /\ \A f \in PlotCalls \cup {"read_csv", "preprocessing",
                                "statistical_analysis", "writing"} :
         \E i \in 1..Len(log) : log[i] = f

\* C10 as stated: the stages run in the order loader, cleaner, summarizer,
\* renderer; the moments are computed before any chart is rendered; a run
\* that completes has run every stage once.
C10_SummarizerBeforeRenderer ==
    /\ InStageOrder(<<"loader", "cleaner", "summarizer", "renderer">>)
    /\ charts # <<>> => moments # <<>>
    /\ pc = "done" => EachCallOnce

\* C10 amended: the stages run in the order loader, cleaner, renderer,
\* summarizer, one after the other; the moments are computed only after the
\* three plot functions have run; a run that completes has made every call
\* once.
C10_RendererBeforeSummarizer ==
    /\ InStageOrder(<<"loader", "cleaner", "renderer", "summarizer">>)
    /\ moments # <<>> => \A f \in PlotCalls : \E i \in 1..Len(log) : log[i] = f
    /\ pc = "done" => EachCallOnce

\* a completed run with its three charts, its moments and its report
C10_Witness ==
    /\ pc = "done"
    /\ Len(charts) = 3
    /\ moments # <<>>
    /\ report # <<>>

=============================================================================
